---- MODULE Spec2Model ----
(***************************************************************************)
(* A model of bokeh/util/serialization.py: the identifier generator        *)
(* (make_id, make_globally_unique_id, the counter _simple_id and its       *)
(* lock), the temporal normaliser (is_datetime_type,                       *)
(* convert_datetime_type, convert_datetime_array), the array transforms    *)
(* (transform_array, transform_array_to_list), the binary eligibility      *)
(* test (array_encoding_disabled) and the buffer decoder                   *)
(* (decode_base64_dict).                                                   *)
(***************************************************************************)
EXTENDS Integers, Sequences, FiniteSets, TLC

VARIABLES
    simple_id,        \* the module global _simple_id
    simple_id_lock,   \* the holder of _simple_id_lock, 0 when it is free
    simple_ids,       \* what settings.simple_ids() answers at this moment
    pc,               \* each thread's position in make_id / make_globally_unique_id
    frame,            \* each thread's locals for the call it is in
    issued,           \* the calls that have returned, in the order they returned
    entered,          \* how many calls have entered the locked section
    pandas,           \* whether import_optional('pandas') yields the library
    arg,              \* the argument of the pure function under check
    result,           \* what the function did with it
    stage             \* "input" before the call, the function's name after it

vars == <<simple_id, simple_id_lock, simple_ids, pc, frame, issued, entered,
          pandas, arg, result, stage>>

idvars == <<simple_id, simple_id_lock, simple_ids, pc, frame, issued, entered>>

fnvars == <<pandas, arg, result, stage>>

-----------------------------------------------------------------------------
(* Bounds of the model. *)

\* The number of threads calling the identifier generator.
NThreads == 2

\* The total number of calls the threads make.
MaxCalls == 3

Threads == 1..NThreads

-----------------------------------------------------------------------------
(* str() of a non-negative int, and int() of a decimal string. *)

Digits == <<"0", "1", "2", "3", "4", "5", "6", "7", "8", "9">>

RECURSIVE Str(_)
Str(n) == IF n < 10 THEN <<Digits[n + 1]>>
          ELSE Str(n \div 10) \o <<Digits[(n % 10) + 1]>>

DigitVal(c) == (CHOOSE i \in 1..10 : Digits[i] = c) - 1

IsDecimal(s) == /\ Len(s) > 0
                /\ \A i \in 1..Len(s) : \E d \in 1..10 : Digits[d] = s[i]

RECURSIVE DecVal(_)
DecVal(s) == IF Len(s) = 0 THEN 0
             ELSE 10 * DecVal(SubSeq(s, 1, Len(s) - 1)) + DigitVal(s[Len(s)])

(* uuid.uuid4() draws 128 random bits, of which the version nibble is 4;   *)
(* str() writes them as 32 hexadecimal digits grouped 8-4-4-4-12.  The     *)
(* draw is modelled as a choice among a few values.                        *)
UuidHex ==
    { <<"0","f","8","f","a","d","5","b","d","9","c","b","4","6","9","f",
        "a","1","6","5","7","0","8","6","7","7","2","8","9","5","0","e">>,
      <<"7","c","9","e","6","6","7","9","7","4","2","5","4","0","d","e",
        "9","4","4","b","e","0","7","f","c","1","f","9","0","a","e","7">> }

UuidStr(h) == SubSeq(h, 1, 8) \o <<"-">> \o SubSeq(h, 9, 12) \o <<"-">> \o
              SubSeq(h, 13, 16) \o <<"-">> \o SubSeq(h, 17, 20) \o <<"-">> \o
              SubSeq(h, 21, 32)

HexDigits == {"0","1","2","3","4","5","6","7","8","9","a","b","c","d","e","f"}

IsUuid(s) == /\ Len(s) = 36
             /\ \A i \in 1..36 :
                    IF i \in {9, 14, 19, 24} THEN s[i] = "-" ELSE s[i] \in HexDigits
             /\ s[15] = "4"

-----------------------------------------------------------------------------
(* The identifier generator. *)

SimpleIdStart == 999

\* setting, k and touched record, for the properties, what the configuration
\* answered when the call asked, the call's rank among the entries to the
\* locked section, and whether the call took the lock or used the counter.
NoFrame == [api |-> "none", mode |-> "unread", setting |-> "unread", tmp |-> 0,
            val |-> <<>>, k |-> 0, touched |-> FALSE]

InitId ==
    /\ simple_id = SimpleIdStart
    /\ simple_id_lock = 0
    /\ simple_ids \in BOOLEAN
    /\ pc = [t \in Threads |-> "idle"]
    /\ frame = [t \in Threads |-> NoFrame]
    /\ issued = <<>>
    /\ entered = 0

Started == Len(issued) + Cardinality({t \in Threads : pc[t] # "idle"})

\* The configuration provider changes its answer (BOKEH_SIMPLE_IDS).
SetSimpleIds(b) ==
    /\ simple_ids # b
    /\ simple_ids' = b
    /\ UNCHANGED <<simple_id, simple_id_lock, pc, frame, issued, entered>>
    /\ UNCHANGED fnvars

\* A thread calls make_globally_unique_id() itself.
CallMakeGloballyUniqueId(t) ==
    /\ pc[t] = "idle"
    /\ Started < MaxCalls
    /\ pc' = [pc EXCEPT ![t] = "uuid"]
    /\ frame' = [frame EXCEPT ![t] = [NoFrame EXCEPT !.api = "make_globally_unique_id"]]
    /\ UNCHANGED <<simple_id, simple_id_lock, simple_ids, issued, entered>>
    /\ UNCHANGED fnvars

\* A make_id that keeps the default answer instead of asking again.
ModeReadCached(t) == TRUE

\* What make_id reads to choose its branch: the setting as it is now.

ModeRead(t) == simple_ids

\* A thread calls make_id(), which asks settings.simple_ids() and branches.
CallMakeId(t) ==
    /\ pc[t] = "idle"
    /\ Started < MaxCalls
    /\ frame' = [frame EXCEPT ![t] =
                    [NoFrame EXCEPT !.api = "make_id",
                                    !.mode = IF ModeRead(t) THEN "simple" ELSE "global",
                                    !.setting = IF simple_ids THEN "simple" ELSE "global"]]
    /\ pc' = [pc EXCEPT ![t] = IF ModeRead(t) THEN "with" ELSE "uuid"]
    /\ UNCHANGED <<simple_id, simple_id_lock, simple_ids, issued, entered>>
    /\ UNCHANGED fnvars

\* A make_id whose increment is not guarded by the lock.
MayEnterUnlocked(t) == TRUE

\* Whether the thread may pass "with _simple_id_lock:".

MayEnter(t) == simple_id_lock = 0

\* with _simple_id_lock:   (Lock.acquire blocks until the lock is free)
Acquire(t) ==
    /\ pc[t] = "with"
    /\ MayEnter(t)
    /\ simple_id_lock' = t
    /\ entered' = entered + 1
    /\ frame' = [frame EXCEPT ![t].k = entered + 1, ![t].touched = TRUE]
    /\ pc' = [pc EXCEPT ![t] = "load"]
    /\ UNCHANGED <<simple_id, simple_ids, issued>>
    /\ UNCHANGED fnvars

\* _simple_id += 1, the read of the global
Load(t) ==
    /\ pc[t] = "load"
    /\ frame' = [frame EXCEPT ![t].tmp = simple_id]
    /\ pc' = [pc EXCEPT ![t] = "store"]
    /\ UNCHANGED <<simple_id, simple_id_lock, simple_ids, issued, entered>>
    /\ UNCHANGED fnvars

\* An increment that skips a value.
IncrementedTwice(t) == frame[t].tmp + 2

\* What the increment writes back.

Incremented(t) == frame[t].tmp + 1

\* _simple_id += 1, the write of the global
Store(t) ==
    /\ pc[t] = "store"
    /\ simple_id' = Incremented(t)
    /\ pc' = [pc EXCEPT ![t] = "str"]
    /\ UNCHANGED <<simple_id_lock, simple_ids, frame, issued, entered>>
    /\ UNCHANGED fnvars

\* ID(str(_simple_id)), evaluated inside the with block
ReadStr(t) ==
    /\ pc[t] = "str"
    /\ frame' = [frame EXCEPT ![t].val = Str(simple_id)]
    /\ pc' = [pc EXCEPT ![t] = "exit"]
    /\ UNCHANGED <<simple_id, simple_id_lock, simple_ids, issued, entered>>
    /\ UNCHANGED fnvars

\* leaving the with block releases the lock
Release(t) ==
    /\ pc[t] = "exit"
    /\ simple_id_lock' = 0
    /\ pc' = [pc EXCEPT ![t] = "return"]
    /\ UNCHANGED <<simple_id, simple_ids, frame, issued, entered>>
    /\ UNCHANGED fnvars

\* return ID(str(uuid.uuid4()))
MakeGloballyUniqueId(t) ==
    /\ pc[t] = "uuid"
    /\ \E h \in UuidHex : frame' = [frame EXCEPT ![t].val = UuidStr(h)]
    /\ pc' = [pc EXCEPT ![t] = "return"]
    /\ UNCHANGED <<simple_id, simple_id_lock, simple_ids, issued, entered>>
    /\ UNCHANGED fnvars

\* The call returns its identifier to the caller.
Return(t) ==
    /\ pc[t] = "return"
    /\ issued' = Append(issued, [thread |-> t, api |-> frame[t].api,
                                 mode |-> frame[t].mode, id |-> frame[t].val,
                                 setting |-> frame[t].setting,
                                 k |-> frame[t].k, touched |-> frame[t].touched])
    /\ pc' = [pc EXCEPT ![t] = "idle"]
    /\ frame' = [frame EXCEPT ![t] = NoFrame]
    /\ UNCHANGED <<simple_id, simple_id_lock, simple_ids, entered>>
    /\ UNCHANGED fnvars

NoFn == /\ pandas = FALSE
        /\ arg = "none"
        /\ result = "none"
        /\ stage = "unused"

Init == InitId /\ NoFn

Next ==
    \/ \E b \in BOOLEAN : SetSimpleIds(b)
    \/ \E t \in Threads : CallMakeId(t)
    \/ \E t \in Threads : CallMakeGloballyUniqueId(t)
    \/ \E t \in Threads : Acquire(t)
    \/ \E t \in Threads : Load(t)
    \/ \E t \in Threads : Store(t)
    \/ \E t \in Threads : ReadStr(t)
    \/ \E t \in Threads : Release(t)
    \/ \E t \in Threads : MakeGloballyUniqueId(t)
    \/ \E t \in Threads : Return(t)

Spec == Init /\ [][Next]_vars

-----------------------------------------------------------------------------
(* Properties of the identifier generator. *)

\* The returned calls that took the simple-ID branch.
SimpleIssued == {i \in 1..Len(issued) : issued[i].mode = "simple"}

\* A simple-ID call that holds the lock or a value not yet returned.
InFlight(t) == \/ pc[t] \in {"load", "store", "str", "exit"}
               \/ pc[t] = "return" /\ frame[t].mode = "simple"

\* C1: the simple IDs returned by the threads, in any interleaving, are
\* pairwise distinct, and once no simple-ID call is in flight they are exactly
\* the integers 1000 .. 999 + N for the N calls returned: no duplicate, no gap.
C1_DistinctNoGap ==
    /\ \A i, j \in SimpleIssued : i # j => issued[i].id # issued[j].id
    /\ (\A t \in Threads : ~InFlight(t)) =>
          {DecVal(issued[i].id) : i \in SimpleIssued}
            = (SimpleIdStart + 1)..(SimpleIdStart + Cardinality(SimpleIssued))

\* Three simple IDs have been returned, by two threads, one of which entered
\* the locked section before the other and returned after it.
C1_Witness ==
    /\ Cardinality(SimpleIssued) >= 3
    /\ \A t \in Threads : pc[t] = "idle"
    /\ \E i, j \in SimpleIssued :
          /\ i < j
          /\ issued[i].thread # issued[j].thread
          /\ issued[i].k > issued[j].k

C2_Issued ==
    \A i \in SimpleIssued :
        LET e == issued[i] IN
        /\ IsDecimal(e.id)
        /\ DecVal(e.id) = 999 + e.k
        /\ e.id = Str(999 + e.k)
        /\ e.k = 1 => e.id = <<"1", "0", "0", "0">>
        /\ \A j \in SimpleIssued :
              issued[j].k = e.k + 1 => DecVal(issued[j].id) = DecVal(e.id) + 1

\* C2: the k-th call to enter the locked section returns the decimal string
\* of 999 + k (the first "1000", each later one 1 more than the one before),
\* and the counter starts at 999 and no step lowers or resets it.
C2_KthIsDecimalOf999PlusK ==
    /\ simple_id = 999
    /\ [](C2_Issued /\ simple_id >= 999)
    /\ [][simple_id' >= simple_id]_vars

\* Three calls have gone through the locked section and returned.
C2_Witness ==
    /\ \E i \in SimpleIssued : issued[i].k = 3 /\ issued[i].id = <<"1", "0", "0", "2">>
    /\ \E i \in SimpleIssued : issued[i].k = 1
    /\ simple_id = 1002

C3_Issued ==
    /\ \A i \in 1..Len(issued) :
          LET e == issued[i] IN
          /\ e.api = "make_globally_unique_id" => IsUuid(e.id) /\ ~e.touched
          /\ (e.api = "make_id" /\ e.setting = "global") => IsUuid(e.id) /\ ~e.touched
          /\ (e.api = "make_id" /\ e.setting = "simple") => IsDecimal(e.id) /\ e.touched
    /\ \A i, j \in SimpleIssued :
          issued[j].k = issued[i].k + 1 => DecVal(issued[j].id) = DecVal(issued[i].id) + 1

\* A step of a call that is on the UUID path.
UuidStep(t) == pc[t] = "uuid" /\ pc'[t] # pc[t]

\* C3: make_globally_unique_id() returns a UUID string whatever the setting
\* is; neither it nor a make_id() that found the setting false takes the lock
\* or changes the counter; make_id() follows the setting as it is at that
\* call; and whatever mode switches and UUID calls come between two
\* consecutive simple IDs, the later is the earlier plus 1.
C3_GlobalPathLeavesCounterAlone ==
    /\ [](C3_Issued)
    /\ [][\A t \in Threads :
            UuidStep(t) => /\ simple_id' = simple_id
                           /\ simple_id_lock' = simple_id_lock
                           /\ entered' = entered]_vars

\* A simple ID, then a make_id() that found the setting false and returned
\* a UUID, then, the setting true again, the next simple ID.
C3_Witness ==
    \E i, j, l \in 1..Len(issued) :
        /\ i < j /\ j < l
        /\ issued[i].mode = "simple"
        /\ issued[j].api = "make_id" /\ issued[j].setting = "global"
        /\ IsUuid(issued[j].id)
        /\ issued[l].mode = "simple" /\ issued[l].k = issued[i].k + 1
        /\ DecVal(issued[l].id) = DecVal(issued[i].id) + 1

-----------------------------------------------------------------------------
(* The pure functions.  Each is checked under a specification of its own:  *)
(* the initial states draw the argument from a bounded set, the action     *)
(* applies the function, and the identifier generator stays untouched.     *)

IdQuiet ==
    /\ simple_id = SimpleIdStart
    /\ simple_id_lock = 0
    /\ simple_ids = TRUE
    /\ pc = [t \in Threads |-> "idle"]
    /\ frame = [t \in Threads |-> NoFrame]
    /\ issued = <<>>
    /\ entered = 0

\* The function named f is applied to the argument and gives r.
Apply(f, r) ==
    /\ stage = "input"
    /\ stage' = f
    /\ result' = r
    /\ UNCHANGED <<pandas, arg>>
    /\ UNCHANGED idvars

-----------------------------------------------------------------------------
(* Scalar temporal values.                                                 *)
(*                                                                         *)
(* A value is [type, a, b]; what a and b count depends on the type:        *)
(*   date            a days since 1970-01-01                               *)
(*   datetime        a seconds since the epoch (wall clock), b microsecond *)
(*   time            a seconds since midnight, b microsecond               *)
(*   np.datetime64   a ticks since the epoch, b = 0: a tick is a second,   *)
(*                   b = 1: a tick is a millisecond                        *)
(*   pd.Timestamp    a = .value, nanoseconds since the epoch               *)
(*   pd.Timedelta    a = .value, nanoseconds                               *)
(*   pd.Period       a = ordinal of a daily period                         *)
(*   NaTType         pd.NaT, the only instance                             *)
(*   timedelta, np.timedelta64, int, float, str, NoneType: not datetimes   *)
(* A float result is kept exactly, as whole milliseconds (ms) and the rest *)
(* in millionths of a millisecond (frac).                                  *)

\* The largest a of a scalar temporal value.
MaxTick == 2

BuiltinTypes == {"date", "datetime", "time", "timedelta", "np.datetime64",
                 "np.timedelta64", "int", "float", "str", "NoneType"}

PandasTypes == {"pd.Timestamp", "pd.Timedelta", "pd.Period", "NaTType"}

\* The classes an instance of T is an instance of (object left out).
Mro(T) ==
    CASE T = "datetime"     -> {"datetime", "date"}
      [] T = "pd.Timestamp" -> {"pd.Timestamp", "datetime", "date"}
      [] T = "NaTType"      -> {"NaTType", "datetime", "date"}
      [] T = "pd.Timedelta" -> {"pd.Timedelta", "timedelta"}
      [] OTHER              -> {T}

isinstance(obj, classes) == Mro(obj.type) \cap classes # {}

ScalarValues(pd) ==
    { [type |-> T, a |-> x, b |-> y] :
        T \in (IF pd THEN BuiltinTypes \cup PandasTypes ELSE BuiltinTypes),
        x \in 0..MaxTick, y \in 0..1 }

\* A recognized set that also holds dt.date.
DatetimeTypesWithDate ==
    {"date", "time", "datetime", "np.datetime64"} \cup
    (IF pandas THEN {"pd.Timestamp", "pd.Timedelta", "pd.Period", "NaTType"} ELSE {})

\* _compute_datetime_types(): the recognized classes, cached for the process.
compute_datetime_types ==
    {"time", "datetime", "np.datetime64"} \cup
    (IF pandas THEN {"pd.Timestamp", "pd.Timedelta", "pd.Period", "NaTType"} ELSE {})

is_datetime_type(obj) == isinstance(obj, compute_datetime_types)

SecondsPerDay == 86400

\* A count of nanoseconds, microseconds, milliseconds, as milliseconds.
FromNs(n) == [ms |-> n \div 1000000, frac |-> n % 1000000]

FromUs(u) == [ms |-> u \div 1000, frac |-> (u % 1000) * 1000]

FromMs(m) == [ms |-> m, frac |-> 0]

\* via records which branch returned.
Returned(via, x) ==
    [status |-> "return", via |-> via, nan |-> FALSE, ms |-> x.ms, frac |-> x.frac]

ReturnedNaN(via) ==
    [status |-> "return", via |-> via, nan |-> TRUE, ms |-> 0, frac |-> 0]

Raised(exc) == [status |-> "raise", via |-> exc, nan |-> FALSE, ms |-> 0, frac |-> 0]

\* (datetime(*obj.timetuple()[:6]) - DT_EPOCH).total_seconds() * 1000:
\* the time tuple has no microsecond, and a plain date's clock fields are 0.
convert_date_to_datetime(obj) ==
    IF obj.type = "date" THEN FromMs(obj.a * SecondsPerDay * 1000)
    ELSE FromMs(obj.a * 1000)

\* The tests of convert_datetime_type with date tried before datetime.
ConvertDateBeforeDatetime(obj) ==
    IF pandas /\ obj.type = "NaTType" THEN ReturnedNaN("NaTType")
    ELSE IF pandas /\ isinstance(obj, {"pd.Period"}) THEN
        Returned("pd.Period", FromMs(obj.a * SecondsPerDay * 1000))
    ELSE IF pandas /\ isinstance(obj, {"pd.Timestamp"}) THEN
        Returned("pd.Timestamp", FromNs(obj.a))
    ELSE IF pandas /\ isinstance(obj, {"pd.Timedelta"}) THEN
        Returned("pd.Timedelta", FromNs(obj.a))
    ELSE IF isinstance(obj, {"date"}) THEN
        Returned("date", convert_date_to_datetime(obj))
    ELSE IF isinstance(obj, {"datetime"}) THEN
        Returned("datetime", FromUs(obj.a * 1000000 + obj.b))
    ELSE IF isinstance(obj, {"np.datetime64"}) THEN
        Returned("np.datetime64", FromMs(IF obj.b = 0 THEN obj.a * 1000 ELSE obj.a))
    ELSE IF isinstance(obj, {"time"}) THEN
        Returned("time", FromUs(((obj.a \div 3600) * 3600 + ((obj.a % 3600) \div 60) * 60
                                  + (obj.a % 60)) * 1000000 + obj.b))
    ELSE Raised("ValueError")

convert_datetime_type(obj) ==
    IF pandas /\ obj.type = "NaTType" THEN ReturnedNaN("NaTType")
    ELSE IF pandas /\ isinstance(obj, {"pd.Period"}) THEN
        \* obj.to_timestamp().value / 10**6.0: the period's start, in ns
        Returned("pd.Period", FromMs(obj.a * SecondsPerDay * 1000))
    ELSE IF pandas /\ isinstance(obj, {"pd.Timestamp"}) THEN
        Returned("pd.Timestamp", FromNs(obj.a))
    ELSE IF pandas /\ isinstance(obj, {"pd.Timedelta"}) THEN
        Returned("pd.Timedelta", FromNs(obj.a))
    ELSE IF isinstance(obj, {"datetime"}) THEN
        \* (obj.replace(tzinfo=None) - DT_EPOCH).total_seconds() * 1000
        Returned("datetime", FromUs(obj.a * 1000000 + obj.b))
    ELSE IF isinstance(obj, {"date"}) THEN
        Returned("date", convert_date_to_datetime(obj))
    ELSE IF isinstance(obj, {"np.datetime64"}) THEN
        \* float((obj - NP_EPOCH) / NP_MS_DELTA)
        Returned("np.datetime64", FromMs(IF obj.b = 0 THEN obj.a * 1000 ELSE obj.a))
    ELSE IF isinstance(obj, {"time"}) THEN
        \* (hour*3600 + minute*60 + second) * 1000 + microsecond / 1000.
        Returned("time", FromUs(((obj.a \div 3600) * 3600 + ((obj.a % 3600) \div 60) * 60
                                  + (obj.a % 60)) * 1000000 + obj.b))
    ELSE Raised("ValueError")

InitTime ==
    /\ IdQuiet
    /\ pandas \in BOOLEAN
    /\ arg \in ScalarValues(pandas)
    /\ result = "none"
    /\ stage = "input"

IsDatetimeType == Apply("is_datetime_type", is_datetime_type(arg))

ConvertDatetimeType == Apply("convert_datetime_type", convert_datetime_type(arg))

NextTime == IsDatetimeType \/ ConvertDatetimeType

SpecTime == InitTime /\ [][NextTime]_vars

\* The datetime-like set as the claim has it: native date, time and datetime,
\* the fixed-precision timestamp types and, with the library, the sentinel.
ClaimedDatetimeLike ==
    {"date", "time", "datetime", "np.datetime64", "pd.Timestamp"} \cup
    (IF pandas THEN {"NaTType"} ELSE {})

\* C5 as stated: is_datetime_type is true exactly of the instances of native
\* date, time, datetime, the timestamp type and the not-a-time sentinel: true
\* of a plain date, false of durations.
C5_AsClaimed ==
    stage = "is_datetime_type" =>
        /\ result = isinstance(arg, ClaimedDatetimeLike)
        /\ arg.type = "date" => result = TRUE
        /\ arg.type \in {"timedelta", "np.timedelta64", "pd.Timedelta"} => result = FALSE

\* C5 amended: is_datetime_type is true exactly of the values whose type is
\* native time, native datetime, np.datetime64 or, with pandas, Timestamp,
\* Timedelta, Period or the type of NaT; it is false of a plain native date and
\* of native timedelta and np.timedelta64, and true of a pandas Timedelta.
C5_TimeDatetimeDatetime64AndPandas ==
    stage = "is_datetime_type" =>
        /\ result = (arg.type \in {"time", "datetime", "np.datetime64",
                                   "pd.Timestamp", "pd.Timedelta", "pd.Period",
                                   "NaTType"})
        /\ arg.type \in {"date", "timedelta", "np.timedelta64"} => result = FALSE
        /\ arg.type = "pd.Timedelta" => result = TRUE

\* is_datetime_type has answered for a plain native date.
C5_Witness ==
    /\ stage = "is_datetime_type"
    /\ arg.type = "date"
    /\ result = FALSE

\* The variants in the order the claim gives them.
Precedence == <<"NaTType", "pd.Period", "pd.Timestamp", "pd.Timedelta",
                "datetime", "date", "np.datetime64", "time">>

Matching(obj) == {i \in 1..Len(Precedence) : Precedence[i] \in Mro(obj.type)}

First(S) == CHOOSE i \in S : \A j \in S : i <= j

\* C6: convert_datetime_type handles a value by the first variant it matches
\* in the order NaT, Period, Timestamp, Timedelta, datetime, date, datetime64,
\* time (NaT gives NaN; a Timestamp is not handled as a datetime, nor a
\* datetime as a date), and raises exactly when the value matches none.
C6_FirstMatchOrRaise ==
    stage = "convert_datetime_type" =>
        IF Matching(arg) = {} THEN result.status = "raise"
        ELSE /\ result.status = "return"
             /\ result.via = Precedence[First(Matching(arg))]
             /\ result.nan = (arg.type = "NaTType")
             /\ arg.type = "pd.Timestamp" => result.ms = 0 /\ result.frac = arg.a
             /\ arg.type = "datetime" =>
                    result.ms = arg.a * 1000 /\ result.frac = arg.b * 1000
             /\ arg.type = "date" => result.ms = arg.a * 86400000 /\ result.frac = 0

\* A datetime with a microsecond part, which is also a date, was converted.
C6_Witness ==
    /\ stage = "convert_datetime_type"
    /\ arg.type = "datetime" /\ arg.b = 1 /\ arg.a = 2
    /\ result.via = "datetime"
    /\ result.ms = 2000 /\ result.frac = 1000

-----------------------------------------------------------------------------
(* Array dtypes and binary eligibility.                                    *)
(*                                                                         *)
(* A dtype is [kind, itemsize, byteorder]: numpy's kind letter, the size   *)
(* of an element in bytes, and "=" for the machine's byte order (or none,  *)
(* for one-byte and object elements), "s" for the swapped one.  Two dtypes *)
(* are equal when the three agree.                                         *)

\* The largest extent of an axis of an array whose dtype is tested.
MaxAxis == 2

Dtype(kind, itemsize) == [kind |-> kind, itemsize |-> itemsize, byteorder |-> "="]

Swapped(d) == [d EXCEPT !.byteorder = "s"]

float16 == Dtype("f", 2)
float32 == Dtype("f", 4)
float64 == Dtype("f", 8)
int8 == Dtype("i", 1)
int16 == Dtype("i", 2)
int32 == Dtype("i", 4)
int64 == Dtype("i", 8)
uint8 == Dtype("u", 1)
uint16 == Dtype("u", 2)
uint32 == Dtype("u", 4)
uint64 == Dtype("u", 8)
bool == Dtype("b", 1)
object == Dtype("O", 8)
datetime64 == Dtype("M", 8)
timedelta64 == Dtype("m", 8)
complex64 == Dtype("c", 8)

NativeDtypes == {float16, float32, float64, int8, int16, int32, int64,
                 uint8, uint16, uint32, uint64, bool, object, datetime64,
                 timedelta64, complex64}

Dtypes == NativeDtypes \cup
          {Swapped(d) : d \in {x \in NativeDtypes : x.itemsize > 1 /\ x.kind # "O"}}

\* A whitelist that also lets int64 through.
BinaryArrayTypesWithInt64 ==
    {float32, float64, uint8, int8, uint16, int16, uint32, int32, int64}

BINARY_ARRAY_TYPES ==
    {float32, float64, uint8, int8, uint16, int16, uint32, int32}

array_encoding_disabled(array) == array.dtype \notin BINARY_ARRAY_TYPES

\* Shapes of at most two axes.
Shapes(n) == {<<>>} \cup {<<x>> : x \in 0..n} \cup {<<x, y>> : x \in 0..n, y \in 0..n}

InitEncoding ==
    /\ IdQuiet
    /\ pandas = FALSE
    /\ arg \in {[dtype |-> d, shape |-> sh] : d \in Dtypes, sh \in Shapes(MaxAxis)}
    /\ result = "none"
    /\ stage = "input"

ArrayEncodingDisabled ==
    Apply("array_encoding_disabled", array_encoding_disabled(arg))

NextEncoding == ArrayEncodingDisabled

SpecEncoding == InitEncoding /\ [][NextEncoding]_vars

\* C4: an array is binary-eligible (array_encoding_disabled is False) exactly
\* when its dtype is float32, float64, uint8, int8, uint16, int16, uint32 or
\* int32 (in the machine's byte order: a byte-swapped float32 is another
\* dtype); for float16, int64, uint64, bool, object, datetime64 and
\* timedelta64 array_encoding_disabled is True.
C4_EligibleIffWhitelisted ==
    stage = "array_encoding_disabled" =>
        LET d == arg.dtype IN
        /\ (result = FALSE) <=>
              /\ d.byteorder = "="
              /\ \/ d.kind = "f" /\ d.itemsize \in {4, 8}
                 \/ d.kind \in {"i", "u"} /\ d.itemsize \in {1, 2, 4}
        /\ d.kind \in {"b", "O", "M", "m"} => result = TRUE
        /\ (d.kind \in {"i", "u"} /\ d.itemsize = 8) => result = TRUE
        /\ (d.kind = "f" /\ d.itemsize = 2) => result = TRUE

\* The test has accepted an int32 matrix.
C4_Witness ==
    /\ stage = "array_encoding_disabled"
    /\ arg.dtype = int32
    /\ arg.shape = <<2, 2>>
    /\ result = FALSE

-----------------------------------------------------------------------------
(* Arrays with their elements.                                             *)
(*                                                                         *)
(* An element is [t, v, frac, s]: t tells what it is ("num" the finite     *)
(* number v + frac/1000, "nan", "inf" with the sign in v, "bool", "none"   *)
(* for None, "date" a native date v days after the epoch, "str" the string *)
(* s).  An array is                                                        *)
(*   [isarray, id, kind, unit, shape, data, masked, mask, order]:          *)
(* id tells one object from another, kind is the dtype's kind letter, unit *)
(* the time unit of a datetime64/timedelta64 dtype, data the elements in   *)
(* row-major (logical) order, masked whether it is a MaskedArray, mask its *)
(* mask (empty for nomask), order its memory layout: "C", "F" (column-     *)
(* major and not also row-major) or "strided" (neither).                   *)

\* The most elements an array under check holds.
MaxElems == 3

Elem(t, v, str) == [t |-> t, v |-> v, frac |-> 0, s |-> str]

Num(n) == Elem("num", n, "")
NaN == Elem("nan", 0, "")
PosInf == Elem("inf", 1, "")
NegInf == Elem("inf", -1, "")
None == Elem("none", 0, "")
PyStr(x) == Elem("str", 0, x)
Date(d) == Elem("date", d, "")
Bool(b) == Elem("bool", b, "")

RECURSIVE Size(_)
Size(shape) == IF Len(shape) = 0 THEN 1 ELSE Head(shape) * Size(Tail(shape))

\* The shapes of at most n elements.
SmallShapes(n) == {sh \in Shapes(n) : Size(sh) <= n}

NdArray(kind, shape, data) ==
    [isarray |-> TRUE, id |-> 1, kind |-> kind, unit |-> "", shape |-> shape,
     data |-> data, masked |-> FALSE, mask |-> <<>>, order |-> "C"]

\* The arrays of the kind with at most n elements, each drawn from elems.
ArraysOf(kind, elems, n) ==
    UNION { {NdArray(kind, sh, d) : d \in [1..Size(sh) -> elems]} : sh \in SmallShapes(n) }

\* np.isfinite, np.isnan, np.isposinf, np.isneginf of an element
isfinite(e) == e.t \notin {"nan", "inf"}

isnan(e) == e.t = "nan"

isposinf(e) == e.t = "inf" /\ e.v = 1

isneginf(e) == e.t = "inf" /\ e.v = -1

\* pd.isnull of an element of an object array
isnull(e) == e.t \in {"none", "nan"}

\* The boolean arrays np.isnan(array), np.isposinf(array), np.isneginf(array)
\* and pd.isnull(array)
np_isnan(data) == [i \in 1..Len(data) |-> isnan(data[i])]

np_isposinf(data) == [i \in 1..Len(data) |-> isposinf(data[i])]

np_isneginf(data) == [i \in 1..Len(data) |-> isneginf(data[i])]

pd_isnull(data) == [i \in 1..Len(data) |-> isnull(data[i])]

\* transformed[where] = value
Assign(transformed, where, value) ==
    [i \in 1..Len(transformed) |-> IF where[i] THEN value ELSE transformed[i]]

\* ndarray.tolist(): the element itself for no axis, a list for one axis, a
\* list of rows for two.
tolist(shape, data) ==
    IF Len(shape) = 0 THEN data[1]
    ELSE IF Len(shape) = 1 THEN [i \in 1..shape[1] |-> data[i]]
    ELSE [r \in 1..shape[1] |->
            [c \in 1..shape[2] |-> data[(r - 1) * shape[2] + c]]]

\* transform_array_to_list with the two infinity strings exchanged.
TransformInfinitiesSwapped(array) ==
    IF array.kind \in {"u", "i", "f"} /\ \E i \in 1..Len(array.data) : ~isfinite(array.data[i])
    THEN LET t0 == array.data
             t1 == Assign(t0, np_isnan(array.data), PyStr("NaN"))
             t2 == Assign(t1, np_isposinf(array.data), PyStr("-Infinity"))
             t3 == Assign(t2, np_isneginf(array.data), PyStr("Infinity"))
         IN  tolist(array.shape, t3)
    ELSE IF array.kind = "O" /\ pandas /\ \E i \in 1..Len(array.data) : isnull(array.data[i])
    THEN tolist(array.shape, Assign(array.data, pd_isnull(array.data), PyStr("NaN")))
    ELSE tolist(array.shape, array.data)

transform_array_to_list(array) ==
    IF array.kind \in {"u", "i", "f"} /\ \E i \in 1..Len(array.data) : ~isfinite(array.data[i])
    THEN LET t0 == array.data                                   \* astype('object')
             t1 == Assign(t0, np_isnan(array.data), PyStr("NaN"))
             t2 == Assign(t1, np_isposinf(array.data), PyStr("Infinity"))
             t3 == Assign(t2, np_isneginf(array.data), PyStr("-Infinity"))
         IN  tolist(array.shape, t3)
    ELSE IF array.kind = "O" /\ pandas /\ \E i \in 1..Len(array.data) : isnull(array.data[i])
    THEN tolist(array.shape, Assign(array.data, pd_isnull(array.data), PyStr("NaN")))
    ELSE tolist(array.shape, array.data)

ListInputs(n) ==
    ArraysOf("f", {Num(0), Num(1), NaN, PosInf, NegInf}, n)
      \cup ArraysOf("i", {Num(0), Num(-1)}, n)
      \cup ArraysOf("u", {Num(0), Num(1)}, n)
      \cup ArraysOf("b", {Bool(0), Bool(1)}, n)
      \cup ArraysOf("O", {Num(1), NaN, None, PyStr("a")}, n)

InitList ==
    /\ IdQuiet
    /\ pandas \in BOOLEAN
    /\ arg \in ListInputs(MaxElems)
    /\ result = "none"
    /\ stage = "input"

TransformArrayToList == Apply("transform_array_to_list", transform_array_to_list(arg))

NextList == TransformArrayToList

SpecList == InitList /\ [][NextList]_vars

\* The element of a nested list at the row-major position p of the shape.
ElemAt(list, shape, p) ==
    IF Len(shape) = 0 THEN list
    ELSE IF Len(shape) = 1 THEN list[p]
    ELSE list[((p - 1) \div shape[2]) + 1][((p - 1) % shape[2]) + 1]

\* The list is nested as the shape is.
NestedAs(list, shape) ==
    IF Len(shape) = 0 THEN TRUE
    ELSE IF Len(shape) = 1 THEN Len(list) = shape[1]
    ELSE Len(list) = shape[1] /\ \A r \in 1..shape[1] : Len(list[r]) = shape[2]

\* C7: for an array of unsigned, signed or float kind with a non-finite
\* element, transform_array_to_list gives the nested list of the array with
\* "NaN" for every NaN, "Infinity" for every +inf, "-Infinity" for every -inf
\* and every finite element unchanged in its place; for an array of finite
\* elements only it gives the plain nested list, nothing replaced.
C7_NonFiniteBecomeStrings ==
    stage = "transform_array_to_list" =>
        LET n == Len(arg.data)
            finite == \A p \in 1..n : arg.data[p].t \in {"num", "bool"}
        IN  /\ (arg.kind \in {"u", "i", "f"} /\ ~finite) =>
                /\ NestedAs(result, arg.shape)
                /\ \A p \in 1..n :
                      LET e == arg.data[p]
                          r == ElemAt(result, arg.shape, p)
                      IN  /\ e.t = "nan" => r = [t |-> "str", v |-> 0, frac |-> 0, s |-> "NaN"]
                          /\ (e.t = "inf" /\ e.v > 0) =>
                                r = [t |-> "str", v |-> 0, frac |-> 0, s |-> "Infinity"]
                          /\ (e.t = "inf" /\ e.v < 0) =>
                                r = [t |-> "str", v |-> 0, frac |-> 0, s |-> "-Infinity"]
                          /\ e.t = "num" => r = e
            /\ finite =>
                /\ NestedAs(result, arg.shape)
                /\ \A p \in 1..n : ElemAt(result, arg.shape, p) = arg.data[p]

\* The float array [1.0, NaN, -inf] has become [1.0, "NaN", "-Infinity"].
C7_Witness ==
    /\ stage = "transform_array_to_list"
    /\ arg.kind = "f"
    /\ arg.shape = <<3>>
    /\ arg.data = <<Num(1), NaN, NegInf>>
    /\ result = <<Num(1), PyStr("NaN"), PyStr("-Infinity")>>

-----------------------------------------------------------------------------
(* convert_datetime_array and transform_array. *)

FreshId == 2

Return_(value) == [status |-> "return", exc |-> "", value |-> value]

Raise_(exc) == [status |-> "raise", exc |-> exc, value |-> <<>>]

ndim(array) == Len(array.shape)

\* array.flags["C_CONTIGUOUS"]
c_contiguous(array) == array.order = "C"

\* An element of a temporal or date array as milliseconds since the epoch:
\* astype('datetime64[us]').astype('int64') / 1000.0
Millis(e, kind, unit) ==
    LET ms == IF e.t = "date" THEN [v |-> e.v * 86400000, frac |-> 0]
              ELSE IF unit = "s" THEN [v |-> (e.v * 1000000) \div 1000, frac |-> 0]
              ELSE IF unit = "ms" THEN [v |-> (e.v * 1000) \div 1000, frac |-> 0]
              ELSE [v |-> e.v \div 1000, frac |-> e.v % 1000]
    IN  [t |-> "num", v |-> ms.v, frac |-> ms.frac, s |-> ""]

\* What astype and the division keep of the layout (order 'K'): a
\* column-major array stays column-major, any other comes out row-major.
KeptOrder(array) == IF array.order = "F" THEN "F" ELSE "C"

\* array.astype('datetime64[us]').astype('int64') / 1000.0: a new array (a
\* MaskedArray stays one, with its mask)
AsMillis(array) ==
    [array EXCEPT !.id = FreshId, !.kind = "f", !.unit = "",
                  !.data = [i \in 1..Len(array.data) |->
                               Millis(array.data[i], array.kind, array.unit)],
                  !.order = KeptOrder(array)]

\* Whether astype('datetime64[us]') takes every element of an object array.
Castable(array) == \A i \in 1..Len(array.data) : array.data[i].t = "date"

\* isinstance(array[0], dt.date): array[0] is an element only when the array
\* has one axis, and the masked constant when that element is masked.
FirstIsDate(array) ==
    /\ ndim(array) = 1
    /\ ~(array.masked /\ Len(array.mask) > 0 /\ array.mask[1])
    /\ array.data[1].t = "date"

convert_datetime_array(array) ==
    IF ~array.isarray THEN Return_(array)
    ELSE IF array.kind = "M" THEN Return_(AsMillis(array))
    ELSE IF array.kind = "m" THEN Return_(AsMillis(array))
    ELSE IF array.kind = "O" /\ ndim(array) = 0
         THEN Raise_("TypeError")              \* len() of unsized object
    ELSE IF array.kind = "O" /\ array.shape[1] > 0 /\ FirstIsDate(array)
         THEN IF Castable(array) THEN Return_(AsMillis(array))
              ELSE Return_(array)              \* except Exception: pass
    ELSE Return_(array)

\* MaskedArray.filled(np.nan).  With nomask the data is handed back as it
\* is; otherwise nan must first convert to the dtype, which it does not for
\* an integer dtype (TypeError) and does as True for bool; then the data is
\* handed back as it is when no element is masked, and else a copy of it
\* with the fill value at the masked positions.
filled_nan(array) ==
    LET data == [array EXCEPT !.id = FreshId, !.masked = FALSE, !.mask = <<>>]
        fill == IF array.kind = "b" THEN Bool(1) ELSE NaN
    IN  IF Len(array.mask) = 0 THEN Return_(data)
        ELSE IF array.kind \in {"i", "u"} THEN Raise_("TypeError")
        ELSE IF \A i \in 1..Len(array.mask) : ~array.mask[i] THEN Return_(data)
        ELSE Return_([data EXCEPT !.data = [i \in 1..Len(array.data) |->
                                              IF array.mask[i] THEN fill
                                              ELSE array.data[i]],
                                  !.order = KeptOrder(array)])

\* np.ascontiguousarray
ascontiguousarray(array) == [array EXCEPT !.id = FreshId, !.order = "C"]

transform_array(array) ==
    LET a1 == convert_datetime_array(array) IN
    IF a1.status = "raise" THEN a1
    ELSE LET a2 == IF a1.value.masked THEN filled_nan(a1.value) ELSE a1 IN
         IF a2.status = "raise" THEN a2
         ELSE IF ~c_contiguous(a2.value) THEN Return_(ascontiguousarray(a2.value))
         ELSE a2

\* The layouts an array of the shape can have.
Orders(shape) ==
    {"C"} \cup (IF Size(shape) >= 2 THEN {"strided"} ELSE {})
          \cup (IF Len(shape) = 2 /\ shape[1] >= 2 /\ shape[2] >= 2 THEN {"F"} ELSE {})

\* The masks an array of n elements can have: none (an ndarray), nomask, or
\* one flag for each element.
Masks(n) ==
    {[masked |-> FALSE, mask |-> <<>>], [masked |-> TRUE, mask |-> <<>>]}
      \cup {[masked |-> TRUE, mask |-> mk] : mk \in [1..n -> BOOLEAN]}

Variants(a) ==
    {[a EXCEPT !.masked = mk.masked, !.mask = mk.mask, !.order = o] :
        mk \in Masks(Len(a.data)), o \in Orders(a.shape)}

WithUnit(S, unit) == {[a EXCEPT !.unit = unit] : a \in S}

\* A value that is not an ndarray: a list of dates, None, a float.
NonArrays ==
    {[isarray |-> FALSE, id |-> 1, kind |-> k, unit |-> "", shape |-> <<>>,
      data |-> d, masked |-> FALSE, mask |-> <<>>, order |-> "C"] :
        k \in {"list"}, d \in {<<>>, <<Date(1)>>, <<Date(0), Date(1)>>, <<PyStr("foo")>>}}
      \cup
    {[isarray |-> FALSE, id |-> 1, kind |-> k, unit |-> "", shape |-> <<>>,
      data |-> <<>>, masked |-> FALSE, mask |-> <<>>, order |-> "C"] :
        k \in {"NoneType", "float"}}

ArrayInputs(n) ==
    UNION { Variants(a) :
            a \in WithUnit(ArraysOf("M", {Num(1), Num(1500)}, n), "s")
                    \cup WithUnit(ArraysOf("M", {Num(1), Num(1500)}, n), "ns")
                    \cup WithUnit(ArraysOf("m", {Num(0), Num(2)}, n), "ms")
                    \cup ArraysOf("O", {Date(1), PyStr("foo")}, n)
                    \cup ArraysOf("f", {Num(1), NaN}, n)
                    \cup ArraysOf("i", {Num(0), Num(7)}, n)
                    \cup ArraysOf("b", {Bool(0), Bool(1)}, n) }

InitArray ==
    /\ IdQuiet
    /\ pandas = FALSE
    /\ arg \in ArrayInputs(MaxElems) \cup NonArrays
    /\ result = "none"
    /\ stage = "input"

ConvertDatetimeArray == Apply("convert_datetime_array", convert_datetime_array(arg))

TransformArray == arg.isarray /\ Apply("transform_array", transform_array(arg))

NextArray == ConvertDatetimeArray \/ TransformArray

SpecArray == InitArray /\ [][NextArray]_vars

\* The cases in which the claim has convert_datetime_array convert: a
\* datetime or timedelta array, or a non-empty object array whose first
\* element is a native date and whose cast succeeds.
Converting(a) ==
    /\ a.isarray
    /\ \/ a.kind \in {"M", "m"}
       \/ /\ a.kind = "O"
          /\ Size(a.shape) > 0
          /\ a.data[1].t = "date"
          /\ ~(a.masked /\ Len(a.mask) > 0 /\ a.mask[1])
          /\ Len(a.shape) <= 1
          /\ Castable(a)

\* C8 as stated: convert_datetime_array never raises; in every non-converting
\* case (not an array, another element kind, an empty object array, a failed
\* cast) it returns its very input, and only a successful cast gives a new
\* millisecond float array.
C8_NeverRaisesReturnsInput ==
    stage = "convert_datetime_array" =>
        /\ result.status = "return"
        /\ ~Converting(arg) => result.value = arg
        /\ Converting(arg) => result.value.id # arg.id /\ result.value.kind = "f"

\* C9 as stated: transform_array of any array returns a plain dense array
\* with no datetime64/timedelta64 dtype and no mask, NaN at every position
\* the input masked, and C-contiguous.
C9_DenseNoTemporalNoMaskContiguous ==
    stage = "transform_array" =>
        /\ result.status = "return"
        /\ result.value.kind \notin {"M", "m"}
        /\ ~result.value.masked
        /\ \A i \in 1..Len(arg.mask) : arg.mask[i] => result.value.data[i].t = "nan"
        /\ result.value.order = "C"

-----------------------------------------------------------------------------
(* decode_base64_dict.                                                     *)
(*                                                                         *)
(* A buffer is [array, dtype, shape].  Its array is either a reference     *)
(* (form "ref") or a base64 string (form "str"), kept as the number of its *)
(* four-character groups and of the "=" that pad the last one.             *)

\* The most four-character groups of a base64 string.
MaxGroups == 3

\* The largest extent an envelope's shape declares for an axis.
MaxExtent == 3

\* base64.b64decode: three bytes a group, less one for each padding "="
b64decode_len(data) == 3 * data.groups - data.pad

Base64Strings ==
    {[form |-> "str", groups |-> g, pad |-> q] :
        g \in 0..MaxGroups, q \in 0..2} \ {[form |-> "str", groups |-> 0, pad |-> q] : q \in 1..2}

Refs == {[form |-> "ref", groups |-> 0, pad |-> 0]}

\* The dtype tags of the envelopes under check, with np.dtype(tag).itemsize.
DtypeTags == {"uint8", "int16", "float32", "float64"}

itemsize(tag) ==
    CASE tag = "uint8" -> 1
      [] tag = "int16" -> 2
      [] tag = "float32" -> 4
      [] tag = "float64" -> 8

EnvelopeShapes ==
    {<<>>} \cup {<<x>> : x \in 0..MaxExtent}
           \cup {<<x, y>> : x \in 0..MaxExtent, y \in 0..MaxExtent}
           \cup {<<x, y, 1>> : x \in 1..2, y \in 1..2}

\* A decoder that reshapes for a one-axis shape too.
ReshapesAnyAxis(shape) == Len(shape) > 0

\* if len(shape) > 1:

Reshapes(shape) == Len(shape) > 1

\* np.frombuffer(bytes, dtype=dtype): a flat array over the decoded bytes;
\* owns tells whether an array has its own memory or aliases those bytes.
frombuffer(nbytes, tag) ==
    [dtype |-> tag, shape |-> <<nbytes \div itemsize(tag)>>, owns |-> FALSE]

\* np.copy
copy(array) == [array EXCEPT !.owns = TRUE]

\* ndarray.reshape, once the element counts are known to agree
reshape(array, shape) == [array EXCEPT !.shape = shape]

Decode(status, exc, value) == [status |-> status, exc |-> exc, value |-> value]

decode_base64_dict(buffer) ==
    LET data == buffer.array
        dtype == buffer.dtype
        shape == buffer.shape
    IN  IF data.form # "str" THEN Decode("raise", "NotImplementedError", <<>>)
        ELSE LET nbytes == b64decode_len(data) IN
             \* np.frombuffer: the buffer size must be a multiple of the element size
             IF nbytes % itemsize(dtype) # 0 THEN Decode("raise", "ValueError", <<>>)
             ELSE LET array == copy(frombuffer(nbytes, dtype)) IN
                  IF Reshapes(shape)
                  THEN IF Size(shape) = Size(array.shape)
                       THEN Decode("return", "", reshape(array, shape))
                       ELSE Decode("raise", "ValueError", <<>>)   \* cannot reshape
                  ELSE Decode("return", "", array)

InitDecode ==
    /\ IdQuiet
    /\ pandas = FALSE
    /\ arg \in {[array |-> a, dtype |-> d, shape |-> sh] :
                  a \in Base64Strings \cup Refs, d \in DtypeTags, sh \in EnvelopeShapes}
    /\ result = "none"
    /\ stage = "input"

DecodeBase64Dict == Apply("decode_base64_dict", decode_base64_dict(arg))

NextDecode == DecodeBase64Dict

SpecDecode == InitDecode /\ [][NextDecode]_vars

\* The decoded byte length and the element count the claim speaks of.
NBytes(b) == 3 * b.array.groups - b.array.pad

Count(b) == NBytes(b) \div itemsize(b.dtype)

\* C10 as stated: a base64 string always decodes to a fresh flat array of
\* (byte length / item size) elements, returned as it is, whatever the
\* declared shape, for a shape of 0 or 1 dimensions; for 2 or more dimensions
\* the result has the declared shape, or an error when the counts differ; the
\* by-reference form always signals an error.
C10_AsClaimed ==
    stage = "decode_base64_dict" =>
        IF arg.array.form # "str" THEN result.status = "raise"
        ELSE IF Len(arg.shape) <= 1
             THEN /\ result.status = "return"
                  /\ result.value.shape = <<Count(arg)>>
                  /\ result.value.owns
             ELSE IF Size(arg.shape) = Count(arg)
                  THEN /\ result.status = "return"
                       /\ result.value.shape = arg.shape
                       /\ result.value.owns
                  ELSE result.status = "raise"

\* C10 amended: when the decoded byte length is not a multiple of the dtype's
\* item size decoding signals an error whatever the shape; when it is, the
\* claim holds as stated.
C10_DecodesWholeElementsOnly ==
    stage = "decode_base64_dict" =>
        IF arg.array.form # "str" THEN result.status = "raise"
        ELSE IF NBytes(arg) % itemsize(arg.dtype) # 0 THEN result.status = "raise"
        ELSE IF Len(arg.shape) <= 1
             THEN /\ result.status = "return"
                  /\ result.value.shape = <<Count(arg)>>
                  /\ result.value.dtype = arg.dtype
                  /\ result.value.owns
             ELSE IF Size(arg.shape) = Count(arg)
                  THEN /\ result.status = "return"
                       /\ result.value.shape = arg.shape
                       /\ result.value.dtype = arg.dtype
                       /\ result.value.owns
                  ELSE result.status = "raise"

\* Eight bytes of int16 declared as three elements came back as the four
\* elements they are.
C10_Witness ==
    /\ stage = "decode_base64_dict"
    /\ arg.array.form = "str" /\ arg.array.groups = 3 /\ arg.array.pad = 1
    /\ arg.dtype = "int16"
    /\ arg.shape = <<3>>
    /\ result.status = "return"
    /\ result.value.shape = <<4>>

====
